---- MODULE Spec2Model ----
(***************************************************************************)
(* Interrupt/resume conversation engine of support_agent:                  *)
(*   chat_with_interrupt_v3.py  (durable variant, SqliteSaver)             *)
(*   basic_chat.py              (volatile variant, MemorySaver)            *)
(*                                                                         *)
(* The HTTP handlers are coroutines on one event loop.  A handler yields   *)
(* only at `await request.get_json()`; everything after it (get_state,     *)
(* stream, jsonify) is synchronous, so the rest of a handler is one atomic *)
(* step.  A request is therefore modelled in two steps: Receive (the body  *)
(* has been read, the request is in flight) and Handle (the handler body). *)
(*                                                                         *)
(* The checkpointer keeps, per thread, the history of checkpoints written  *)
(* by the graph runtime: one "input" checkpoint when new input is streamed *)
(* in, and one "loop" checkpoint after every superstep.  get_state reads   *)
(* the latest one.  A checkpoint is a serialised snapshot taken at the end *)
(* of the superstep.                                                       *)
(***************************************************************************)
EXTENDS Integers, Sequences, FiniteSets, TLC

(* ------------------------------ bounds -------------------------------- *)

\* number of thread ids uuid4 can hand out in one run
MaxThreads == 1
\* number of requests that can be in flight at the same time
MaxInFlight == 2
\* checkpoints in the files of the two working directories before the model
\* stops writing to the store
MaxCkpts == 5
\* number of overlapping requests received in one run
MaxRequests == 3
\* requests that follow the start in a scenario replayed on both variants
ScenarioLen == 3
\* lines the user types into a console chatbot in one run
MaxTurns == 3

(* ----------------------------- constants ------------------------------ *)

\* thread_id is None (the key is absent from the request body)
NoThread == -1
\* a caller-chosen thread id that uuid4 never generates ("my-custom-thread")
CustomId == 0
\* ids generated by uuid.uuid4(), in order of generation
UuidIds == 1..MaxThreads
ThreadIds == {CustomId} \cup UuidIds

\* user_input values: '' is the default of data.get('user_input', '')
Inputs == {"", "Hello World"}

Variants == {"durable", "volatile"}

PromptText == "I need your input to continue. Please provide your response."
InterruptPayload == "Please provide your response:"
AckPrefix == "Thank you for your input: '"
AckSuffix == "'. Processing complete!"

StateKeys == {"messages", "processing_complete"}

VARIABLES
    variant,         \* which application is running
    checkpoints,     \* checkpointer: thread id -> sequence of checkpoints
    active_threads,  \* basic_chat.py: registry, thread id set (keys)
    next_uuid,       \* the next id uuid4 will produce
    pending,         \* requests in flight: read, not yet handled
    received,        \* number of requests that have been put in flight
    last,            \* the request handled last and its response
    view,            \* body of the last response of a /threads endpoint
    console,         \* the console chatbot: its graph state and position
    manager,         \* ConversationManager: the saved files, the last call
    last_put,        \* thread id -> the snapshot last handed to the checkpointer
    elsewhere        \* data/checkpoints.db of the other working directory

vars == <<variant, checkpoints, active_threads, next_uuid, pending, received, last, view,
          console, manager, last_put, elsewhere>>

(* ------------------------- graph state values ------------------------- *)

\* channel values of a checkpoint: the keys that are set, and their values
NoValues == [keys |-> {}, messages |-> <<>>, processing_complete |-> FALSE]

\* initial_state of start_new_conversation
InitialState == [keys |-> StateKeys, messages |-> <<>>, processing_complete |-> FALSE]

\* dict.get(key, default) on channel values
GetMessages(values) == IF "messages" \in values.keys THEN values.messages ELSE <<>>
GetProcessingComplete(values) ==
    IF "processing_complete" \in values.keys THEN values.processing_complete ELSE FALSE

Msg(role, content) == [role |-> role, content |-> content]

\* f"Thank you for your input: '{user_input}'. Processing complete!"
AckContent(user_input) == AckPrefix \o user_input \o AckSuffix

(* ------------------------------ the node ------------------------------ *)

\* the messages the node holds when it reaches interrupt(): the durable
\* variant appends the prompt first, the volatile variant has it commented out
MessagesAtInterrupt(v, values) ==
    IF v = "durable"
    THEN Append(GetMessages(values), Msg("assistant", PromptText))
    ELSE GetMessages(values)

\* request_human_input run with a resume value: interrupt() returns it
RequestHumanInputResumed(v, values, user_input) ==
    [keys |-> StateKeys,
     messages |-> MessagesAtInterrupt(v, values)
                    \o <<Msg("user", user_input),
                         Msg("assistant", AckContent(user_input))>>,
     processing_complete |-> TRUE]

(* --------------------------- the checkpointer ------------------------- *)

HasCheckpoint(cps, t) == Len(cps[t]) > 0
Latest(cps, t) == cps[t][Len(cps[t])]

\* one channel in the serialised form of a checkpoint: the list of
\* `messages` as (role, content) pairs, or the flag `processing_complete`
Entry(key, items, flag) == [key |-> key, items |-> items, flag |-> flag]

\* the checkpointer's serialiser on the channel values handed to put(): one
\* entry per channel that is set; each message dict becomes the pair of its
\* two strings
Dumps(values) ==
    (IF "messages" \in values.keys
     THEN <<Entry("messages",
                  [i \in 1..Len(values.messages) |->
                     <<values.messages[i].role, values.messages[i].content>>],
                  FALSE)>>
     ELSE <<>>)
    \o (IF "processing_complete" \in values.keys
        THEN <<Entry("processing_complete", <<>>, values.processing_complete)>>
        ELSE <<>>)

\* the serialiser's inverse, run when a row is read: the channels found in
\* the column, the message dicts built again from the pairs
Loads(blob) ==
    LET keys == {blob[i].key : i \in 1..Len(blob)}
        Of(key) == blob[CHOOSE i \in 1..Len(blob) : blob[i].key = key]
        items == IF "messages" \in keys THEN Of("messages").items ELSE <<>>
        flag == IF "processing_complete" \in keys
                THEN Of("processing_complete").flag
                ELSE FALSE
    IN [keys |-> keys,
        messages |-> [i \in 1..Len(items) |-> Msg(items[i][1], items[i][2])],
        processing_complete |-> flag]

\* a row of the checkpoint store: put() stores the channel values in their
\* serialised form (column `checkpoint`).  ts stands for the time the row was
\* written (the checkpoint's timestamp): the rank of the row among the rows
\* of the store, in the order they were written
Ckpt(step, source, values, next, ts) ==
    [step |-> step, source |-> source, checkpoint |-> Dumps(values), next |-> next,
     ts |-> ts]

\* the channel values of a row, as a read deserialises them
Values(row) == Loads(row.checkpoint)

\* the StateSnapshot of a checkpoint, as far as the handlers read it
Snapshot(values, next) == [values_is_none |-> FALSE, values |-> values, next |-> next]

\* graph_app.get_state(config): the latest checkpoint of the thread, read
\* from the store; for a thread without checkpoints the runtime returns an
\* empty snapshot (values = {}, next = ()), never values = None
GetState(cps, t) ==
    IF HasCheckpoint(cps, t)
    THEN Snapshot(Values(Latest(cps, t)), Latest(cps, t).next)
    ELSE Snapshot(NoValues, {})

\* of the snapshots handed to the checkpointer, those of the threads that
\* still have rows in the store the process has open
StillSaved(cps, puts) ==
    [t \in ThreadIds |-> IF HasCheckpoint(cps, t) THEN puts[t] ELSE Snapshot(NoValues, {})]

\* the timestamps of the rows in the store
Written(cps) == UNION {{cps[t][i].ts : i \in 1..Len(cps[t])} : t \in DOMAIN cps}

\* the time of the next write: later than every row in the store
Clock(cps) ==
    LET written == Written(cps)
    IN IF written = {} THEN 1
       ELSE 1 + CHOOSE x \in written : \A y \in written : x >= y

\* the store with its rows ranked again after rows were removed: the order
\* of the timestamps is kept
Ranked(cps) ==
    LET written == Written(cps)
    IN [t \in DOMAIN cps |->
          [i \in 1..Len(cps[t]) |->
             [cps[t][i] EXCEPT !.ts = Cardinality({x \in written : x <= cps[t][i].ts})]]]

NextStep(cps, t) == IF HasCheckpoint(cps, t) THEN Latest(cps, t).step + 1 ELSE -1

\* graph_app.stream(initial_state, config): the input is written over the
\* thread's channels (last value wins), START runs, request_input runs up to
\* interrupt().  Two checkpoints are written; the stream yields __interrupt__.
\* puts: the snapshot the runtime handed to the checkpointer last.
\* The node appends to the list object the runtime holds as the value of
\* `messages`, while the runtime's background writer serialises the
\* checkpoint of the preceding superstep: in_place tells whether the append
\* was made before the list was serialised, and so is in the stored state.
StreamInput(v, cps, t, input, in_place) ==
    LET prev == IF HasCheckpoint(cps, t) THEN Values(Latest(cps, t)) ELSE NoValues
        s == NextStep(cps, t)
        stored == IF in_place
                  THEN [input EXCEPT !.messages = MessagesAtInterrupt(v, input)]
                  ELSE input
    IN [checkpoints |->
          [cps EXCEPT ![t] = @ \o <<Ckpt(s, "input", prev, {"__start__"}, Clock(cps)),
                                   Ckpt(s + 1, "loop", stored, {"request_input"},
                                        Clock(cps) + 1)>>],
        puts |-> {Snapshot(stored, {"request_input"})},
        events |-> <<[kind |-> "__interrupt__", value |-> InterruptPayload,
                      messages |-> <<>>]>>]

\* variant of StreamResume: the node's update is written but the thread is
\* left waiting in request_input
StreamResumeStaysLive(v, cps, t, user_input) ==
    LET update == RequestHumanInputResumed(v, Values(Latest(cps, t)), user_input)
    IN [checkpoints |->
          [cps EXCEPT ![t] = Append(@, Ckpt(NextStep(cps, t), "loop", update,
                                            {"request_input"}, Clock(cps)))],
        puts |-> {Snapshot(update, {"request_input"})},
        events |-> <<[kind |-> "request_input", value |-> "",
                      messages |-> update.messages]>>]

\* graph_app.stream(Command(resume=user_input), config) on a thread whose
\* latest checkpoint waits in request_input: the node is run again from its
\* first line with the checkpointed state, interrupt() returns user_input,
\* the node's update is written and the edge to END leaves no next step.
StreamResume(v, cps, t, user_input) ==
    LET update == RequestHumanInputResumed(v, Values(Latest(cps, t)), user_input)
    IN [checkpoints |->
          [cps EXCEPT ![t] = Append(@, Ckpt(NextStep(cps, t), "loop", update, {},
                                            Clock(cps)))],
        puts |-> {Snapshot(update, {})},
        events |-> <<[kind |-> "request_input", value |-> "",
                      messages |-> update.messages]>>]

(* ------------------------------ responses ----------------------------- *)

\* jsonify(...) bodies with the HTTP status code; keys a body does not carry
\* hold the defaults below
Response(code, thread_id, status, message, messages, requires_input, processing_complete) ==
    [code |-> code, thread_id |-> thread_id, status |-> status, message |-> message,
     messages |-> messages, requires_input |-> requires_input,
     processing_complete |-> processing_complete]

ErrorResponse(code, message) == Response(code, NoThread, "error", message, <<>>, FALSE, FALSE)

NoResponse == Response(0, NoThread, "", "", <<>>, FALSE, FALSE)

\* what a handler returns: the response, the store and registry it leaves,
\* and the path it took (start / resume / already_completed); puts: the
\* snapshot its stream handed to the checkpointer last, if it ran one
Outcome(resp, cps, act, path) ==
    [resp |-> resp, checkpoints |-> cps, active_threads |-> act, path |-> path,
     puts |-> {}]

\* the outcome of a handler that ran the stream `run`
Ran(resp, run, act, path) ==
    [resp |-> resp, checkpoints |-> run.checkpoints, active_threads |-> act,
     path |-> path, puts |-> run.puts]

(* ------------------------------ handlers ------------------------------ *)

\* first event of the stream that is an __interrupt__, 0 if none
FirstInterrupt(events) ==
    IF \E i \in 1..Len(events) : events[i].kind = "__interrupt__"
    THEN CHOOSE i \in 1..Len(events) :
            /\ events[i].kind = "__interrupt__"
            /\ \A j \in 1..(i - 1) : events[j].kind # "__interrupt__"
    ELSE 0

\* variant of StartResult: a stream that ends without __interrupt__ falls off
\* the end of the function and nothing is returned
StartResultSilent(v, run, act, thread_id, path) ==
    LET i == FirstInterrupt(run.events)
    IN IF i > 0
       THEN Ran(Response(200, thread_id, "interrupted", run.events[i].value,
                         <<>>, TRUE, FALSE),
                run, IF v = "volatile" THEN act \cup {thread_id} ELSE act, path)
       ELSE Ran(NoResponse, run, act, path)

\* the loop of start_new_conversation over the events of the stream: the
\* first __interrupt__ is answered 'interrupted'; a stream that ends without
\* one is answered 'completed'
StartResult(v, run, act, thread_id, path) ==
    LET i == FirstInterrupt(run.events)
    IN IF i > 0
       THEN Ran(Response(200, thread_id, "interrupted", run.events[i].value,
                         <<>>, TRUE, FALSE),
                run, IF v = "volatile" THEN act \cup {thread_id} ELSE act, path)
       ELSE Ran(Response(200, thread_id, "completed", "No interrupt occurred",
                         <<>>, FALSE, FALSE),
                run, act, path)

\* start_new_conversation(thread_id) with thread_id already replaced by a
\* fresh uuid when it was None; env.write_fails: graph_app.stream raises
StartNewConversation(v, cps, act, thread_id, env, path) ==
    IF env.write_fails
    THEN Outcome(ErrorResponse(500, "Stream error"), cps, act, path)
    ELSE StartResult(v, StreamInput(v, cps, thread_id, InitialState, env.in_place),
                     act, thread_id, path)

\* messages of the last request_input event of the stream, [] if none
RECURSIVE ExtractMessages(_, _)
ExtractMessages(events, messages) ==
    IF events = <<>> THEN messages
    ELSE ExtractMessages(Tail(events),
                         IF events[1].kind = "request_input"
                         THEN events[1].messages ELSE messages)

\* variant of ResumeConversation: the check of user_input is missing
ResumeConversationUnvalidated(v, cps, act, thread_id, user_input, env) ==
    IF env.write_fails \/ ~HasCheckpoint(cps, thread_id)
    THEN Outcome(ErrorResponse(500, "Resume error"), cps, act, "resume")
    ELSE LET run == StreamResume(v, cps, thread_id, user_input)
         IN Ran(Response(200, thread_id, "completed", "Processing complete",
                         ExtractMessages(run.events, <<>>), FALSE, TRUE),
                run, IF v = "volatile" THEN act \ {thread_id} ELSE act, "resume")

\* variant of ResumeConversation: the resumed thread stays in the registry
ResumeConversationKeepsRegistry(v, cps, act, thread_id, user_input, env) ==
    IF user_input = ""
    THEN Outcome(ErrorResponse(400, "user_input is required to resume conversation"),
                 cps, act, "resume")
    ELSE IF env.write_fails
    THEN Outcome(ErrorResponse(500, "Resume error"), cps, act, "resume")
    ELSE LET run == StreamResume(v, cps, thread_id, user_input)
         IN Ran(Response(200, thread_id, "completed", "Processing complete",
                         ExtractMessages(run.events, <<>>), FALSE, TRUE),
                run, act, "resume")

\* resume_conversation(thread_id, user_input, config)
ResumeConversation(v, cps, act, thread_id, user_input, env) ==
    IF user_input = ""
    THEN Outcome(ErrorResponse(400, "user_input is required to resume conversation"),
                 cps, act, "resume")
    ELSE IF env.write_fails
    THEN Outcome(ErrorResponse(500, "Resume error"), cps, act, "resume")
    ELSE LET run == StreamResume(v, cps, thread_id, user_input)
         IN Ran(Response(200, thread_id, "completed", "Processing complete",
                         ExtractMessages(run.events, <<>>), FALSE, TRUE),
                run, IF v = "volatile" THEN act \ {thread_id} ELSE act, "resume")

\* chat(): the dispatch on thread_id and on the thread's state.
\* fresh is the id uuid4 would produce; env.read_fails: get_state raises
Chat(v, cps, act, thread_id, user_input, fresh, env) ==
    IF thread_id = NoThread
    THEN StartNewConversation(v, cps, act, fresh, env, "start_new")
    ELSE IF env.read_fails
    THEN StartNewConversation(v, cps, act, thread_id, env, "start_fallback")
    ELSE LET current_state == GetState(cps, thread_id)
         IN IF current_state.values_is_none
            THEN StartNewConversation(v, cps, act, thread_id, env, "start_id")
            ELSE IF current_state.next # {}
            THEN ResumeConversation(v, cps, act, thread_id, user_input, env)
            ELSE Outcome(Response(200, thread_id, "already_completed",
                                  "This conversation has already been completed",
                                  GetMessages(current_state.values), FALSE,
                                  GetProcessingComplete(current_state.values)),
                         cps, act, "already_completed")

(* ------------------------------ requests ------------------------------ *)

Slots == 1..MaxInFlight

\* live: the thread's latest checkpoint has a next step; terminal: it has none
ThreadStatus(cps, t) ==
    IF ~HasCheckpoint(cps, t) THEN "none"
    ELSE IF Latest(cps, t).next # {} THEN "live" ELSE "terminal"

IsLive(cps, t) == ThreadStatus(cps, t) = "live"
IsTerminal(cps, t) == ThreadStatus(cps, t) = "terminal"

\* a POST /chat that has been read and not yet handled.  arrived_live: the
\* thread was live when the request arrived; raced: it is a resume (non-empty
\* input) that was in flight together with another resume of the same live
\* thread
Pending(thread_id, user_input, arrived_live, raced) ==
    [busy |-> TRUE, thread_id |-> thread_id, user_input |-> user_input,
     arrived_live |-> arrived_live, raced |-> raced]

Idle == [busy |-> FALSE, thread_id |-> NoThread, user_input |-> "",
         arrived_live |-> FALSE, raced |-> FALSE]

\* the request handled last: its body, its response, and what the handler
\* met: the thread it acted on and that thread's status before the handler
\* ran, the path taken, the store failures that occurred, and whether the
\* request raced with another resume of the same live thread
Handled(op, thread_id, user_input, resp, path, target, pre, read_failed, write_failed, raced) ==
    [op |-> op, thread_id |-> thread_id, user_input |-> user_input, resp |-> resp,
     path |-> path, target |-> target, pre |-> pre, read_failed |-> read_failed,
     write_failed |-> write_failed, raced |-> raced]

Nothing == Handled("", NoThread, "", NoResponse, "", NoThread, "", FALSE, FALSE, FALSE)

\* what the environment decides while a request is handled: whether the
\* store read (get_state) or the store write (stream) raises, and whether the
\* node's in-place append reaches the stored checkpoint.  Store failures occur
\* in the durable variant only (sqlite); the in-memory saver has none, and
\* the volatile node appends nothing before interrupt()
Env(read_fails, write_fails, in_place) ==
    [read_fails |-> read_fails, write_fails |-> write_fails, in_place |-> in_place]

Envs ==
    IF variant = "durable"
    THEN {Env(rf, wf, ip) : rf \in BOOLEAN, wf \in BOOLEAN, ip \in BOOLEAN}
    ELSE {Env(FALSE, FALSE, FALSE)}

\* the outcomes a request can meet: a request that only reads the store
\* (get_state, SELECT) meets its read, DELETE its write, and POST /chat
\* without a thread id skips get_state (chat, line 101)
ReadEnvs == {env \in Envs : ~env.write_fails /\ ~env.in_place}
WriteEnvs == {env \in Envs : ~env.read_fails /\ ~env.in_place}
StartEnvs == {env \in Envs : ~env.read_fails}

\* SELECT COUNT(*) FROM checkpoints
RECURSIVE CountCheckpoints(_, _)
CountCheckpoints(cps, ts) ==
    IF ts = {} THEN 0
    ELSE LET t == CHOOSE x \in ts : TRUE
         IN Len(cps[t]) + CountCheckpoints(cps, ts \ {t})

(* ------------------------ the /threads endpoints ---------------------- *)

\* body of a /threads response: the state and next steps of a state read,
\* the ids and count of a listing, the count of a delete.  Kept with it:
\* repeat, the request handled just before was the same kind of request for
\* the same thread; removed, the checkpoint rows the request removed.  A
\* /health body carries the statistics below it (has_stats: the durable body
\* has total_threads and total_checkpoints, not the error key)
View(state, next_steps, threads, count, deleted, repeat) ==
    [state |-> state, next_steps |-> next_steps, threads |-> threads,
     count |-> count, deleted |-> deleted, repeat |-> repeat, removed |-> 0,
     has_stats |-> FALSE, total_threads |-> 0, total_checkpoints |-> 0,
     thread_ids |-> {}]

NoView == View(NoValues, {}, <<>>, 0, 0, FALSE)

\* what a /threads handler returns: the response, its body, the store
Answer(resp, body, cps) == [resp |-> resp, view |-> body, checkpoints |-> cps]

\* the fields of the StateSnapshot that get_state returns
SnapshotAttrs ==
    {"values", "next", "config", "metadata", "created_at", "parent_config",
     "tasks", "interrupts"}

\* created_at of the snapshot: the ISO string of the checkpoint's timestamp,
\* None for a thread without checkpoint
CreatedAt(cps, t) == IF HasCheckpoint(cps, t) THEN "str" ELSE "None"

\* GET /threads/<id>/state, durable variant.  The body is built from
\* state.created_at.isoformat() (created_at is a str, which has no
\* isoformat) and from state.step (not a field of the snapshot): building it
\* raises, and the except branch answers 500
GetThreadStateDurable(cps, thread_id, env) ==
    IF env.read_fails
    THEN Answer(ErrorResponse(500, "Failed to get state"), NoView, cps)
    ELSE LET state == GetState(cps, thread_id)
         IN IF state.values_is_none
            THEN Answer(ErrorResponse(404, "Thread not found"), NoView, cps)
            ELSE IF CreatedAt(cps, thread_id) = "str" \/ "step" \notin SnapshotAttrs
            THEN Answer(ErrorResponse(500, "Failed to get state"), NoView, cps)
            ELSE Answer(Response(200, thread_id, "", "", <<>>, FALSE, FALSE),
                        View(state.values, state.next, <<>>, 0, 0, FALSE), cps)

\* variant of GetThreadStateVolatile: the read goes through update_state and
\* leaves a checkpoint of its own
GetThreadStateVolatileWriting(cps, act, thread_id) ==
    IF thread_id \notin act
    THEN Answer(ErrorResponse(404, "Thread not found"), NoView, cps)
    ELSE LET state == GetState(cps, thread_id)
         IN Answer(Response(200, thread_id, "", "", <<>>, FALSE, FALSE),
                   View(state.values, state.next, <<>>, 0, 0, FALSE),
                   [cps EXCEPT ![thread_id] =
                      Append(@, Ckpt(NextStep(cps, thread_id), "update",
                                     state.values, state.next, Clock(cps)))])

\* GET /threads/<id>/state, volatile variant: the registry decides whether
\* the thread exists
GetThreadStateVolatile(cps, act, thread_id) ==
    IF thread_id \notin act
    THEN Answer(ErrorResponse(404, "Thread not found"), NoView, cps)
    ELSE LET state == GetState(cps, thread_id)
         IN Answer(Response(200, thread_id, "", "", <<>>, FALSE, FALSE),
                   View(state.values, state.next, <<>>, 0, 0, FALSE), cps)

GetThreadState(v, cps, act, thread_id, env) ==
    IF v = "durable"
    THEN GetThreadStateDurable(cps, thread_id, env)
    ELSE GetThreadStateVolatile(cps, act, thread_id)

\* rows the runtime puts in the `writes` table: the writes of the START task
\* (messages, processing_complete, the trigger of request_input), the
\* __interrupt__ write of the suspended node, and on resume the __resume__
\* write and the node's two writes
StartWrites == 3
InterruptWrites == 1
ResumeWrites == 3

\* SELECT COUNT(*) FROM writes WHERE thread_id = t
RECURSIVE WriteRows(_, _, _)
WriteRows(cps, t, i) ==
    IF i = 0 THEN 0
    ELSE WriteRows(cps, t, i - 1)
         + (IF cps[t][i].source = "input" THEN StartWrites
            ELSE IF cps[t][i].next # {} THEN InterruptWrites
            ELSE ResumeWrites)

\* variant of DeleteThread: a delete that removes nothing is answered as a
\* success with count 0
DeleteThreadSilent(cps, thread_id, env) ==
    IF env.write_fails
    THEN Answer(ErrorResponse(500, "Failed to delete thread"), NoView, cps)
    ELSE Answer(Response(200, thread_id, "", "deleted successfully", <<>>, FALSE, FALSE),
                View(NoValues, {}, <<>>, 0, WriteRows(cps, thread_id, Len(cps[thread_id])),
                     FALSE),
                Ranked([cps EXCEPT ![thread_id] = <<>>]))

\* DELETE /threads/<id> (durable variant only): both tables lose the thread's
\* rows; deleted_count is cursor.rowcount after the second execute, the number
\* of rows removed from `writes`.  env.write_fails: sqlite raises, nothing is
\* committed
DeleteThread(cps, thread_id, env) ==
    IF env.write_fails
    THEN Answer(ErrorResponse(500, "Failed to delete thread"), NoView, cps)
    ELSE LET deleted_count == WriteRows(cps, thread_id, Len(cps[thread_id]))
             after == Ranked([cps EXCEPT ![thread_id] = <<>>])
         IN IF deleted_count > 0
            THEN Answer(Response(200, thread_id, "", "deleted successfully", <<>>,
                                 FALSE, FALSE),
                        View(NoValues, {}, <<>>, 0, deleted_count, FALSE), after)
            ELSE Answer(ErrorResponse(404, "Thread not found"), NoView, after)

\* columns of the table `checkpoints` that SqliteSaver creates
CheckpointColumns ==
    {"thread_id", "checkpoint_ns", "checkpoint_id", "parent_checkpoint_id", "type",
     "checkpoint", "metadata"}

\* SELECT DISTINCT thread_id ... ORDER BY thread_ts DESC over the rows of
\* the threads `threads`: sqlite keeps the first row it scans of each thread
\* (its earliest checkpoint) and sorts the threads by that row's timestamp,
\* latest first
RECURSIVE DistinctThreads(_, _)
DistinctThreads(cps, threads) ==
    IF threads = {} THEN <<>>
    ELSE LET t == CHOOSE x \in threads : \A y \in threads : cps[x][1].ts >= cps[y][1].ts
         IN <<t>> \o DistinctThreads(cps, threads \ {t})

\* GET /threads (durable variant only):
\* SELECT DISTINCT thread_id FROM checkpoints ORDER BY thread_ts DESC.
\* The table has no column thread_ts: execute raises and the except branch
\* answers 500.  env.read_fails: sqlite raises for another reason
ListThreads(cps, env) ==
    IF env.read_fails \/ "thread_ts" \notin CheckpointColumns
    THEN Answer(ErrorResponse(500, "Failed to list threads"), NoView, cps)
    ELSE LET thread_ids == DistinctThreads(cps, {t \in ThreadIds : HasCheckpoint(cps, t)})
         IN Answer(Response(200, NoThread, "", "", <<>>, FALSE, FALSE),
                   View(NoValues, {}, thread_ids, Len(thread_ids), 0, FALSE), cps)

\* cursor.fetchone(): the next row of the result (a tuple of columns), None
\* (written as the tuple of no columns) when there is none
None == <<>>
FetchOne(rows) == IF rows = <<>> THEN None ELSE rows[1]

\* `cursor.fetchone()[0] if cursor.fetchone() else 0` on the rows of a query:
\* the condition fetches the first row; the value is taken from the row the
\* next fetchone() returns, and subscripting None raises TypeError
FetchStat(rows) ==
    LET condition == FetchOne(rows)
        rest == IF rows = <<>> THEN rows ELSE Tail(rows)
        row == FetchOne(rest)
    IN IF condition = None THEN [raised |-> FALSE, value |-> 0]
       ELSE IF row = None THEN [raised |-> TRUE, value |-> 0]
       ELSE [raised |-> FALSE, value |-> row[1]]

\* SELECT COUNT(DISTINCT thread_id) FROM checkpoints
CountThreads(cps) == Cardinality({t \in ThreadIds : HasCheckpoint(cps, t)})

\* GET /health, durable variant: each COUNT query yields one row.  When a
\* query or the reading of its result raises, the except branch answers the
\* body with the error key and no statistics; the status is 200 either way
HealthDurable(cps, env) ==
    LET thread_count == FetchStat(<< <<CountThreads(cps)>> >>)
        checkpoint_count == FetchStat(<< <<CountCheckpoints(cps, ThreadIds)>> >>)
        ok == Response(200, NoThread, "healthy", "", <<>>, FALSE, FALSE)
    IN IF env.read_fails \/ thread_count.raised \/ checkpoint_count.raised
       THEN Answer([ok EXCEPT !.message = "Database query failed"], NoView, cps)
       ELSE Answer(ok, [NoView EXCEPT !.has_stats = TRUE,
                                      !.total_threads = thread_count.value,
                                      !.total_checkpoints = checkpoint_count.value],
                   cps)

\* GET /health, volatile variant: the size and the keys of the registry
HealthVolatile(cps, act) ==
    Answer(Response(200, NoThread, "healthy", "", <<>>, FALSE, FALSE),
           [NoView EXCEPT !.total_threads = Cardinality(act), !.thread_ids = act],
           cps)

Health(v, cps, act, env) ==
    IF v = "durable" THEN HealthDurable(cps, env) ELSE HealthVolatile(cps, act)

(* ------------------------------ restart ------------------------------- *)

\* the store of a process that has written nothing
NoCheckpoints == [t \in ThreadIds |-> <<>>]

\* the file data/checkpoints.db of a working directory: its rows, and the
\* snapshots last handed to the checkpointer that wrote them
DbFile(cps, puts) == [checkpoints |-> cps, last_put |-> puts]

\* a working directory no process has run in: connect creates the file empty
NoDbFile == DbFile(NoCheckpoints, [t \in ThreadIds |-> Snapshot(NoValues, {})])

\* variant of Reboot: the durable store is rebuilt empty
RebootLosesStore(v, cps, act, found) ==
    [checkpoints |-> NoCheckpoints, active_threads |-> {}]

\* the module is loaded again by a new process, which keeps nothing of the
\* old one: create_graph(DB_PATH) builds the checkpointer.  DB_PATH is the
\* relative path "data/checkpoints.db": sqlite3.connect opens the file of
\* the directory the process is started in, with the rows found there (the
\* rows the old process committed when that is its directory, the rows an
\* earlier process left in another one, none in a directory it creates the
\* file in).  MemorySaver and the active_threads registry start empty
Reboot(v, cps, act, found) ==
    IF v = "durable"
    THEN [checkpoints |-> found, active_threads |-> act]
    ELSE [checkpoints |-> NoCheckpoints, active_threads |-> {}]

(* ------------------------ ConversationManager ------------------------- *)

\* conversation ids: f"conv_{now:%Y%m%d_%H%M%S}" of two runs
ConvIds == {"conv_a", "conv_b"}

\* msg.__class__.__name__ of a message of the history
ClassName(msg) ==
    CASE msg.role = "user" -> "HumanMessage"
      [] msg.role = "assistant" -> "AIMessage"
      [] msg.role = "system" -> "SystemMessage"
      [] OTHER -> "ToolMessage"

\* message histories handed to save_conversation: the ones the chatbot
\* builds, and others a caller can build
Histories ==
    {<<>>,
     <<Msg("system", "You are a helpful AI assistant.")>>,
     <<Msg("system", "You are a helpful AI assistant."), Msg("user", "hi"),
       Msg("assistant", "response")>>,
     <<Msg("assistant", "response"), Msg("user", "hi")>>,
     <<Msg("user", "hi"), Msg("user", "")>>,
     <<Msg("user", "hi"), Msg("tool", "result"), Msg("assistant", "response")>>}

\* state["metadata"], reduced to its counter
Metadatas == {[message_count |-> 1], [message_count |-> 3]}

\* the states save_conversation is called with
ChatStates ==
    {[messages |-> h, user_input |-> u, conversation_id |-> id, metadata |-> md] :
       h \in Histories, u \in {"", "hi"}, id \in ConvIds, md \in Metadatas}

\* the file <save_dir>/<conversation_id>.json: absent, or the JSON document
\* written by save_conversation (its timestamp is never read back)
NoFile ==
    [exists |-> FALSE, conversation_id |-> "", metadata |-> [message_count |-> 0],
     messages |-> <<>>]

\* variant of SaveConversation: an existing file is left as it is
SaveConversationKeepsFirst(files, state) ==
    IF files[state.conversation_id].exists
    THEN files
    ELSE [files EXCEPT ![state.conversation_id] =
            [exists |-> TRUE,
             conversation_id |-> state.conversation_id,
             metadata |-> state.metadata,
             messages |-> [i \in 1..Len(state.messages) |->
                             [type |-> ClassName(state.messages[i]),
                              content |-> state.messages[i].content]]]]

\* ConversationManager.save_conversation(state): open(filepath, 'w') replaces
\* the file; each message is written as its class name and its content
SaveConversation(files, state) ==
    [files EXCEPT ![state.conversation_id] =
       [exists |-> TRUE,
        conversation_id |-> state.conversation_id,
        metadata |-> state.metadata,
        messages |-> [i \in 1..Len(state.messages) |->
                        [type |-> ClassName(state.messages[i]),
                         content |-> state.messages[i].content]]]]

\* the loop of load_conversation over data["messages"]: a message object is
\* built for the three known class names, any other entry is skipped
RECURSIVE ToMessages(_)
ToMessages(msg_data) ==
    IF msg_data = <<>> THEN <<>>
    ELSE LET d == msg_data[1]
             rest == ToMessages(Tail(msg_data))
         IN IF d.type = "HumanMessage" THEN <<Msg("user", d.content)>> \o rest
            ELSE IF d.type = "AIMessage" THEN <<Msg("assistant", d.content)>> \o rest
            ELSE IF d.type = "SystemMessage" THEN <<Msg("system", d.content)>> \o rest
            ELSE rest

\* the value of load_conversation: None, or a state
Loaded(is_none, messages, user_input, conversation_id, metadata) ==
    [is_none |-> is_none, messages |-> messages, user_input |-> user_input,
     conversation_id |-> conversation_id, metadata |-> metadata]
NoState == Loaded(TRUE, <<>>, "", "", [message_count |-> 0])

\* ConversationManager.load_conversation(conversation_id)
LoadConversation(files, conversation_id) ==
    IF conversation_id \notin DOMAIN files \/ ~files[conversation_id].exists
    THEN NoState
    ELSE LET data == files[conversation_id]
         IN Loaded(FALSE, ToMessages(data.messages), "", data.conversation_id,
                   data.metadata)

\* the conversations directory and the last call made on the manager; kept
\* with them: saved, per id the state of the last save_conversation call,
\* and rewrites, per id whether a save replaced a file with other content
ManagerState(files, op, id, loaded, saved, rewrites) ==
    [files |-> files, op |-> op, id |-> id, loaded |-> loaded, saved |-> saved,
     rewrites |-> rewrites]
NoManager ==
    ManagerState([id \in ConvIds |-> NoFile], "", "", NoState,
                 [id \in ConvIds |-> NoState], [id \in ConvIds |-> FALSE])

\* the manager after conversation_manager.save_conversation(state)
AfterSave(m, state) ==
    LET id == state.conversation_id
        files == SaveConversation(m.files, state)
    IN ManagerState(files, "save", id, NoState,
                    [m.saved EXCEPT ![id] =
                       Loaded(FALSE, state.messages, state.user_input, id,
                              state.metadata)],
                    [m.rewrites EXCEPT ![id] =
                       @ \/ (m.files[id].exists /\ files[id] # m.files[id])])

\* the manager after conversation_manager.load_conversation(conversation_id)
AfterLoad(m, conversation_id) ==
    [m EXCEPT !.op = "load", !.id = conversation_id,
              !.loaded = LoadConversation(m.files, conversation_id)]

(* -------------------------- console chatbots -------------------------- *)

\* dummy/chatbot.py, dummy/enhanced_chatbot.py, blog_writer/crewai_chatbot.py
Bots == {"chatbot", "enhanced", "crewai"}

\* what input() raises instead of returning a line: Ctrl-C, end of input
Signals == {"KeyboardInterrupt", "EOFError"}

\* 'load <conversation_id>' lines: an id of ConvIds, an id with no file
LoadLines == {"load conv_a", "load conv_b", "load conv_zz"}

\* what input("\nYou: ") yields: a line (a message, commands, quit words; no
\* line has blanks around it, strip() leaves them as they are) or a signal
Typed ==
    {"hi", "history", "help", "save", "clear", "quit", "BYE"} \cup LoadLines \cup Signals

\* str.lower() on the lines of Typed
Lower(line) == IF line = "BYE" THEN "bye" ELSE line

\* user_input.lower().startswith('load ') and user_input[5:].strip()
IsLoad(line) == line \in LoadLines
LoadArg(line) ==
    CASE line = "load conv_a" -> "conv_a"
      [] line = "load conv_b" -> "conv_b"
      [] OTHER -> "conv_zz"

\* the conversation_id main() of enhanced_chatbot.py gives this run
RunId == "conv_a"

QuitWords == {"quit", "exit", "bye"}

\* the commands get_user_input answers with user_input '' (a failed 'load' of
\* enhanced_chatbot.py does the same); chatbot.py has no commands
Commands(bot) ==
    CASE bot = "enhanced" -> {"save", "history"}
      [] bot = "crewai" -> {"help", "history"}
      [] OTHER -> {}

\* the system message of initial_state and the one 'clear' leaves
SystemPrompt(bot) ==
    IF bot = "crewai"
    THEN "You are a helpful AI assistant with blog writing capabilities using CrewAI agents."
    ELSE "You are a helpful AI assistant. Be conversational and engaging."
ClearedPrompt(bot) ==
    IF bot = "crewai"
    THEN "You are a helpful AI assistant with blog writing capabilities."
    ELSE "You are a helpful AI assistant."

\* supersteps chatbot.stream(initial_state) runs before the runtime raises
\* GraphRecursionError (no config is passed: the default limit)
RecursionLimit == 25

ErrorPrefix == "I apologize, but I encountered an error: "

\* the graph state of a console chatbot and the node that runs next; kept
\* with it: upstream_failed, the model call of the last processing step
\* raised; interrupted, what it raised was KeyboardInterrupt; before, the messages when that step began; typed, the line the
\* last input() returned; from, the node that ran last.  message_count is
\* metadata["message_count"] (chatbot.py keeps no metadata).  The dict
\* initial_state of main() is kept as initial_messages and initial_count:
\* shares_messages / shares_metadata tell whether the graph state still holds
\* the very list / dict object of initial_state, which the nodes change in place
ConsoleState(bot, node, messages, user_input, should_end, steps, turns, failed, before) ==
    [bot |-> bot, node |-> node, messages |-> messages, user_input |-> user_input,
     should_end |-> should_end, steps |-> steps, turns |-> turns,
     upstream_failed |-> failed, interrupted |-> FALSE, before |-> before,
     typed |-> "", from |-> "",
     message_count |-> 0, conversation_id |-> "",
     initial_messages |-> messages, initial_count |-> 0,
     shares_messages |-> FALSE, shares_metadata |-> FALSE]

NoConsole == ConsoleState("", "off", <<>>, "", FALSE, 0, 0, FALSE, <<>>)

\* initial_state of main()
InitialConsole(bot) ==
    [ConsoleState(bot, "get_input",
                  IF bot = "chatbot" THEN <<>>
                  ELSE <<Msg("system", SystemPrompt(bot))>>,
                  "", FALSE, 0, 0, FALSE, <<>>)
       EXCEPT !.message_count = IF bot = "chatbot" THEN 0 ELSE 1,
              !.initial_count = IF bot = "chatbot" THEN 0 ELSE 1,
              !.conversation_id = IF bot = "chatbot" THEN "" ELSE RunId]

\* the state dict a node of enhanced_chatbot.py holds, as save_conversation
\* reads it
StateOf(c) ==
    [messages |-> c.messages, user_input |-> c.user_input,
     conversation_id |-> c.conversation_id,
     metadata |-> [message_count |-> c.message_count]]

\* what a node leaves: the graph state and the conversations directory
Step(c, m) == [console |-> c, manager |-> m]

\* get_user_input(state) when input() yields `typed`, compared with the
\* commands as `lowered`.  A quit word, Ctrl-C or end of input make the node
\* of enhanced_chatbot.py save the conversation and return END, which is not
\* a state update: the runtime raises; in chatbot.py the quit word returns END
\* and the signals leave the node as exceptions; crewai_chatbot.py sets
\* should_end and the conditional edge leads to END.  A command returns
\* user_input '' and the edge leads to process_message all the same: 'save'
\* writes the file, 'clear' replaces the messages by the system message,
\* 'load <id>' returns the loaded state if there is one
ReadLine(c, typed, lowered, m) ==
    LET r == [c EXCEPT !.typed = typed, !.from = "get_input"]
    IN IF c.user_input # ""
       THEN Step([c EXCEPT !.node = "process_message", !.from = "get_input"], m)
       ELSE IF typed \in Signals \/ lowered \in QuitWords
       THEN CASE c.bot = "crewai" ->
                   Step([r EXCEPT !.user_input = "", !.should_end = TRUE,
                                  !.node = "END"], m)
              [] c.bot = "enhanced" ->
                   Step([r EXCEPT !.node = "raised"], AfterSave(m, StateOf(c)))
              [] OTHER -> Step([r EXCEPT !.node = "raised"], m)
       ELSE IF lowered = "save" /\ c.bot = "enhanced"
       THEN Step([r EXCEPT !.user_input = "", !.node = "process_message"],
                 AfterSave(m, StateOf(c)))
       ELSE IF lowered \in Commands(c.bot)
       THEN Step([r EXCEPT !.user_input = "", !.node = "process_message"], m)
       ELSE IF lowered = "clear" /\ c.bot # "chatbot"
       THEN Step([r EXCEPT !.messages = <<Msg("system", ClearedPrompt(c.bot))>>,
                           !.shares_messages = FALSE,
                           !.user_input = "", !.node = "process_message"], m)
       ELSE IF IsLoad(lowered) /\ c.bot = "enhanced"
       THEN LET loaded_state == LoadConversation(m.files, LoadArg(typed))
            IN IF loaded_state.is_none
               THEN Step([r EXCEPT !.user_input = "", !.node = "process_message"],
                         AfterLoad(m, LoadArg(typed)))
               ELSE Step([r EXCEPT !.messages = loaded_state.messages,
                                   !.user_input = loaded_state.user_input,
                                   !.conversation_id = loaded_state.conversation_id,
                                   !.message_count = loaded_state.metadata.message_count,
                                   !.shares_messages = FALSE,
                                   !.shares_metadata = FALSE,
                                   !.node = "process_message"],
                         AfterLoad(m, LoadArg(typed)))
       ELSE Step([r EXCEPT !.user_input = typed, !.node = "process_message"], m)

\* variant of GetUserInput: the line is compared as typed, not in lower case
GetUserInputCaseSensitive(c, typed, m) == ReadLine(c, typed, typed, m)

\* get_user_input(state): the line is compared in lower case
GetUserInput(c, typed, m) == ReadLine(c, typed, Lower(typed), m)

\* what llm.invoke does in process_message: it returns the answer, raises an
\* Exception (a timeout, an API error), or Ctrl-C arrives while it runs
ModelCalls == {"answer", "Exception", "KeyboardInterrupt"}

\* process_message(state): the user message is appended, the model is
\* called, its answer appended and user_input cleared.  "answer": the call
\* returns, and metadata["message_count"] is set to len(messages).
\* enhanced_chatbot.py and crewai_chatbot.py catch an Exception and append an
\* apology, returning the metadata as it was; chatbot.py has no try: the
\* exception leaves stream() and main() prints it.  KeyboardInterrupt is no
\* Exception: no chatbot catches it in the node, it leaves stream() with the
\* user message appended and nothing returned
ProcessMessage(c, call) ==
    LET with_user == Append(c.messages, Msg("user", c.user_input))
        answered == Append(with_user,
                           Msg("assistant",
                               IF call = "answer" THEN "response"
                               ELSE ErrorPrefix \o "timeout"))
        Appended_(messages) ==
            [c EXCEPT !.from = "process_message", !.messages = messages,
                      !.initial_messages = IF c.shares_messages THEN messages ELSE @]
    IN IF call = "answer"
       THEN [Appended_(answered) EXCEPT
               !.user_input = "", !.node = "get_input",
               !.message_count = IF c.bot = "chatbot" THEN 0 ELSE Len(answered),
               !.initial_count = IF c.bot # "chatbot" /\ c.shares_metadata
                                 THEN Len(answered) ELSE @]
       ELSE IF c.bot = "chatbot" \/ call = "KeyboardInterrupt"
       THEN [Appended_(with_user) EXCEPT !.node = "raised"]
       ELSE [Appended_(answered) EXCEPT !.user_input = "", !.node = "get_input"]

\* one superstep of chatbot.stream: the node runs unless the limit is reached
Superstep(c, after) ==
    IF c.steps >= RecursionLimit
    THEN [c EXCEPT !.node = "raised"]
    ELSE [after EXCEPT !.steps = c.steps + 1]

\* main() of enhanced_chatbot.py when chatbot.stream raised: the except branch
\* saves the dict initial_state
MainExcept(c, m) ==
    IF c.bot = "enhanced" /\ c.node = "raised"
    THEN AfterSave(m, [messages |-> c.initial_messages, user_input |-> "",
                       conversation_id |-> RunId,
                       metadata |-> [message_count |-> c.initial_count]])
    ELSE m

\* the file an earlier run of enhanced_chatbot.py left under another id
EarlierRun ==
    [messages |-> <<Msg("system", SystemPrompt("enhanced")), Msg("user", "hi"),
                    Msg("assistant", "response")>>,
     user_input |-> "", conversation_id |-> "conv_b",
     metadata |-> [message_count |-> 3]]

\* ids a caller can put in a request: its own, or one a response has carried
KnownIds == {CustomId} \cup 1..(next_uuid - 1)

Init ==
    /\ variant \in Variants
    /\ checkpoints = [t \in ThreadIds |-> <<>>]
    /\ active_threads = {}
    /\ next_uuid = 1
    /\ pending = [s \in Slots |-> Idle]
    /\ received = 0
    /\ last = Nothing
    /\ view = NoView
    /\ console = NoConsole
    /\ manager = NoManager
    /\ last_put = [t \in ThreadIds |-> Snapshot(NoValues, {})]
    /\ elsewhere = NoDbFile

\* the body of chat() run on {thread_id, user_input}
RunChat(thread_id, user_input, env, raced) ==
    LET out == Chat(variant, checkpoints, active_threads, thread_id, user_input,
                    next_uuid, env)
        target == IF thread_id = NoThread THEN next_uuid ELSE thread_id
    IN /\ thread_id = NoThread => next_uuid <= MaxThreads
       /\ CountCheckpoints(out.checkpoints, ThreadIds)
          + CountCheckpoints(elsewhere.checkpoints, ThreadIds) <= MaxCkpts
       /\ checkpoints' = out.checkpoints
       /\ active_threads' = out.active_threads
       /\ next_uuid' = IF thread_id = NoThread THEN next_uuid + 1 ELSE next_uuid
       /\ last' = Handled("chat", thread_id, user_input, out.resp, out.path, target,
                          ThreadStatus(checkpoints, target),
                          env.read_fails /\ thread_id # NoThread,
                          out.resp.code = 500, raced)
       /\ view' = NoView
       /\ last_put' = IF out.puts = {} THEN last_put
                    ELSE [last_put EXCEPT ![target] = CHOOSE put \in out.puts : TRUE]
       /\ UNCHANGED <<variant, console, manager, elsewhere>>

\* POST /chat, received and handled with no other request in flight
PostChat(thread_id, user_input, env) ==
    /\ RunChat(thread_id, user_input, env, FALSE)
    /\ UNCHANGED <<pending, received>>

\* GET /threads/<id>/state: the handler has no await, it runs in one step
GetThreadStateReq(thread_id, env) ==
    LET out == GetThreadState(variant, checkpoints, active_threads, thread_id, env)
    IN /\ checkpoints' = out.checkpoints
       /\ last' = Handled("state", thread_id, "", out.resp, "state", thread_id,
                          ThreadStatus(checkpoints, thread_id),
                          env.read_fails, FALSE, FALSE)
       /\ view' = [out.view EXCEPT !.repeat = (last.op = "state"
                                                /\ last.thread_id = thread_id)]
       /\ UNCHANGED <<variant, active_threads, next_uuid, pending, received, console, manager,
                      last_put, elsewhere>>

\* DELETE /threads/<id>: the handler has no await, it runs in one step
DeleteThreadReq(thread_id, env) ==
    LET out == DeleteThread(checkpoints, thread_id, env)
    IN /\ variant = "durable"
       /\ checkpoints' = out.checkpoints
       /\ last' = Handled("delete", thread_id, "", out.resp, "delete", thread_id,
                          ThreadStatus(checkpoints, thread_id),
                          FALSE, env.write_fails, FALSE)
       /\ view' = [out.view EXCEPT
                     !.repeat = (last.op = "delete" /\ last.thread_id = thread_id),
                     !.removed = Len(checkpoints[thread_id])
                                 - Len(out.checkpoints[thread_id])]
       /\ last_put' = StillSaved(out.checkpoints, last_put)
       /\ UNCHANGED <<variant, active_threads, next_uuid, pending, received, console, manager,
                      elsewhere>>

\* GET /threads: the handler has no await, it runs in one step
ListThreadsReq(env) ==
    LET out == ListThreads(checkpoints, env)
    IN /\ variant = "durable"
       /\ checkpoints' = out.checkpoints
       /\ last' = Handled("list", NoThread, "", out.resp, "list", NoThread, "",
                          env.read_fails, FALSE, FALSE)
       /\ view' = out.view
       /\ UNCHANGED <<variant, active_threads, next_uuid, pending, received, console, manager,
                      last_put, elsewhere>>

\* GET /health: the handler has no await, it runs in one step
HealthReq(env) ==
    LET out == Health(variant, checkpoints, active_threads, env)
    IN /\ checkpoints' = out.checkpoints
       /\ last' = Handled("health", NoThread, "", out.resp, "health", NoThread, "",
                          env.read_fails, FALSE, FALSE)
       /\ view' = out.view
       /\ UNCHANGED <<variant, active_threads, next_uuid, pending, received, console, manager,
                      last_put, elsewhere>>

\* the process is stopped and started again, with no request in flight, in
\* the working directory of the old process or in another one
Restart(same_cwd) ==
    LET here == DbFile(checkpoints, last_put)
        found == IF same_cwd THEN here ELSE elsewhere
        out == Reboot(variant, checkpoints, active_threads, found.checkpoints)
    IN /\ \A s \in Slots : ~pending[s].busy
       /\ checkpoints' = out.checkpoints
       /\ active_threads' = out.active_threads
       /\ last' = Handled("restart", NoThread, "", NoResponse,
                          IF same_cwd THEN "restart" ELSE "restart_elsewhere",
                          NoThread, "", FALSE, FALSE, FALSE)
       /\ view' = NoView
       /\ last_put' = StillSaved(out.checkpoints, found.last_put)
       /\ elsewhere' = IF variant = "durable" /\ ~same_cwd THEN here ELSE elsewhere
       /\ UNCHANGED <<variant, next_uuid, pending, received, console, manager>>

\* the requests in flight that are resumes of thread_id, arrived while it
\* was live
Rivals(s, thread_id) ==
    {o \in Slots \ {s} : /\ pending[o].busy
                         /\ pending[o].thread_id = thread_id
                         /\ pending[o].arrived_live
                         /\ pending[o].user_input # ""}

\* a POST /chat body has been read (await request.get_json() returned)
Receive(s, thread_id, user_input) ==
    LET live == thread_id # NoThread /\ IsLive(checkpoints, thread_id)
        raced == live /\ user_input # "" /\ Rivals(s, thread_id) # {}
    IN /\ ~pending[s].busy
       /\ \A o \in 1..(s - 1) : pending[o].busy
       /\ received < MaxRequests
       /\ received' = received + 1
       /\ pending' = [o \in Slots |->
                        IF o = s THEN Pending(thread_id, user_input, live, raced)
                        ELSE IF raced /\ o \in Rivals(s, thread_id)
                        THEN [pending[o] EXCEPT !.raced = TRUE]
                        ELSE pending[o]]
       /\ UNCHANGED <<variant, checkpoints, active_threads, next_uuid, last, view, console,
                      manager, last_put, elsewhere>>

\* the rest of chat() for the request in slot s, run without yielding
Handle(s, env) ==
    /\ pending[s].busy
    /\ RunChat(pending[s].thread_id, pending[s].user_input, env, pending[s].raced)
    /\ pending' = [pending EXCEPT ![s] = Idle]
    /\ UNCHANGED received

\* requests arrive one at a time
Next ==
    \/ \E x \in Inputs, env \in StartEnvs : PostChat(NoThread, x, env)
    \/ \E x \in Inputs, env \in Envs : \E t \in KnownIds : PostChat(t, x, env)
    \/ \E t \in KnownIds, env \in ReadEnvs : GetThreadStateReq(t, env)
    \/ \E t \in KnownIds, env \in WriteEnvs : DeleteThreadReq(t, env)
    \/ \E env \in ReadEnvs : ListThreadsReq(env)
    \/ \E env \in ReadEnvs : HealthReq(env)
    \/ \E same_cwd \in BOOLEAN : Restart(same_cwd)

Spec == Init /\ [][Next]_vars

\* requests overlap: several can be in flight before any is handled
NextConcurrent ==
    \/ \E s \in Slots, x \in Inputs :
         \E t \in {NoThread} \cup KnownIds : Receive(s, t, x)
    \/ \E s \in Slots, env \in Envs : Handle(s, env)

ConcurrentSpec == Init /\ [][NextConcurrent]_vars

\* a console chatbot is started.  The runtime hands the nodes the objects of
\* initial_state or copies of them; enhanced_chatbot.py finds the
\* conversations directory empty or as an earlier run left it
InitConsole ==
    /\ variant = "durable"
    /\ checkpoints = [t \in ThreadIds |-> <<>>]
    /\ active_threads = {}
    /\ next_uuid = 1
    /\ pending = [s \in Slots |-> Idle]
    /\ received = 0
    /\ last = Nothing
    /\ view = NoView
    /\ console \in {InitialConsole(bot) : bot \in Bots}
                   \cup {[InitialConsole("enhanced") EXCEPT !.shares_messages = TRUE,
                                                          !.shares_metadata = TRUE]}
    /\ manager \in IF console.bot = "enhanced"
                   THEN {NoManager, AfterSave(NoManager, EarlierRun)}
                   ELSE {NoManager}
    /\ last_put = [t \in ThreadIds |-> Snapshot(NoValues, {})]
    /\ elsewhere = NoDbFile

\* the get_input node runs: input() yields a line or a signal; when the
\* stream raises, main() handles the exception
ConsoleRead(typed) ==
    LET out == GetUserInput(console, typed, manager)
        after == Superstep(console, [out.console EXCEPT
                                       !.turns = console.turns + 1,
                                       !.upstream_failed = FALSE])
        ran == console.steps < RecursionLimit
    IN /\ console.node = "get_input"
       /\ console.turns < MaxTurns
       /\ console' = after
       /\ manager' = MainExcept(after, IF ran THEN out.manager ELSE manager)
       /\ UNCHANGED <<variant, checkpoints, active_threads, next_uuid, pending, received,
                      last, view, last_put, elsewhere>>

\* the process_message node runs; when the stream raises, main() handles
\* the exception
ConsoleProcess(call) ==
    LET after == Superstep(console, [ProcessMessage(console, call) EXCEPT
                                       !.upstream_failed = (call # "answer"),
                                       !.interrupted = (call = "KeyboardInterrupt"),
                                       !.before = console.messages])
    IN /\ console.node = "process_message"
       /\ console' = after
       /\ manager' = MainExcept(after, manager)
       /\ UNCHANGED <<variant, checkpoints, active_threads, next_uuid, pending, received,
                      last, view, last_put, elsewhere>>

\* conversation_manager.save_conversation(state)
ManagerSave(state) ==
    /\ manager' = AfterSave(manager, state)
    /\ UNCHANGED <<variant, checkpoints, active_threads, next_uuid, pending, received,
                   last, view, console, last_put, elsewhere>>

\* conversation_manager.load_conversation(conversation_id)
ManagerLoad(conversation_id) ==
    /\ manager' = AfterLoad(manager, conversation_id)
    /\ UNCHANGED <<variant, checkpoints, active_threads, next_uuid, pending, received,
                   last, view, console, last_put, elsewhere>>

NextManager ==
    \/ \E state \in ChatStates : ManagerSave(state)
    \/ \E conversation_id \in ConvIds : ManagerLoad(conversation_id)

ManagerSpec == Init /\ [][NextManager]_vars

NextConsole ==
    \/ \E typed \in Typed : ConsoleRead(typed)
    \/ \E call \in ModelCalls : ConsoleProcess(call)

ConsoleSpec == InitConsole /\ [][NextConsole]_vars

(* ============================== properties ============================ *)

StartPaths == {"start_new", "start_id", "start_fallback"}

\* the messages and the flag stored in the thread's latest checkpoint
StoredMessages(t) == GetMessages(Values(Latest(checkpoints, t)))
StoredComplete(t) == GetProcessingComplete(Values(Latest(checkpoints, t)))

UserMessages(messages) == {i \in 1..Len(messages) : messages[i].role = "user"}

\* the stored checkpoints of a thread that are live (non-terminal: they have
\* a next step) and those that are terminal (no next step)
LiveCheckpoints(cps, t) == {i \in 1..Len(cps[t]) : cps[t][i].next # {}}
TerminalCheckpoints(cps, t) == {i \in 1..Len(cps[t]) : cps[t][i].next = {}}

\* C1: a POST /chat without thread_id, or with a thread_id that has no
\* checkpoint, starts a thread: the response is 'interrupted' with
\* requires_input, carries the supplied (or generated) id, and that thread
\* has exactly one live checkpoint afterwards.
C1_StartOnUnknownThread ==
    (/\ last.op = "chat"
     /\ last.thread_id = NoThread \/ last.pre = "none"
     /\ ~last.write_failed)
    => /\ last.resp.status = "interrupted"
       /\ last.resp.requires_input
       /\ last.resp.thread_id = last.target
       /\ Cardinality(LiveCheckpoints(checkpoints, last.target)) = 1

\* C2: a resume with empty user_input fails with 400 (ValidationError) in
\* every state of every thread (not started, suspended, completed) and
\* whether or not the store would fail, and it touches neither the store nor
\* the registry; a POST /chat that is dispatched to resume with empty input
\* is answered that 400.
C2_ResumeRejectsEmptyInput ==
    /\ \A t \in ThreadIds, env \in Envs :
          LET out == ResumeConversation(variant, checkpoints, active_threads, t, "", env)
          IN /\ out.resp.code = 400
             /\ out.checkpoints = checkpoints
             /\ out.active_threads = active_threads
    /\ (last.op = "chat" /\ last.path = "resume" /\ last.user_input = "")
         => last.resp.code = 400 /\ last.resp.status = "error"

C2_Witness ==
    /\ last.op = "chat" /\ last.path = "resume" /\ last.user_input = ""
    /\ last.resp.code = 400
    /\ IsLive(checkpoints, last.target)
    /\ \E t \in ThreadIds : IsTerminal(checkpoints, t)

\* C3: a resume request (a POST /chat with a thread_id that has no checkpoint
\* and a non-empty user_input) fails with NotFoundError (404) and creates no
\* checkpoint for that id.
C3_ResumeUnknownNotFound ==
    (/\ last.op = "chat" /\ last.thread_id # NoThread
     /\ last.user_input # "" /\ last.pre = "none")
    => /\ last.resp.code = 404
       /\ ~HasCheckpoint(checkpoints, last.target)

\* C4: after a resume with non-empty input x on a started thread, the
\* messages returned and stored are, in order: the assistant prompt (durable
\* variant only, once), the user message x, the acknowledgment containing x;
\* 3 entries in the durable variant; processing_complete is true.
C4_MessagesAfterResume ==
    (last.op = "chat" /\ last.path = "resume" /\ last.resp.status = "completed")
    => LET x == last.user_input
           m == last.resp.messages
           n == Len(m)
       IN /\ x # ""
          /\ n = IF variant = "durable" THEN 3 ELSE 2
          /\ variant = "durable" =>
                m[1] = [role |-> "assistant",
                        content |-> "I need your input to continue. Please provide your response."]
          /\ m[n - 1] = [role |-> "user", content |-> x]
          /\ m[n].role = "assistant"
          /\ m[n].content = "Thank you for your input: '" \o x \o "'. Processing complete!"
          /\ StoredMessages(last.target) = m
          /\ StoredComplete(last.target)
          /\ last.resp.processing_complete

\* C5: once a thread is terminal, a POST /chat for it answers
\* 'already_completed' with the stored messages, and changes no checkpoint.
C5_CompletedThreadIsFrozen ==
    [][\A t \in ThreadIds :
          (IsTerminal(checkpoints, t) /\ last'.op = "chat" /\ last'.thread_id = t
           /\ <<checkpoints, last>>' # <<checkpoints, last>>)
          => /\ last'.resp.status = "already_completed"
             /\ last'.resp.messages = StoredMessages(t)
             /\ checkpoints' = checkpoints]_vars

\* C6: each thread has at most one live (non-terminal) checkpoint in the
\* store, and a successful resume consumes the live one: the thread is left
\* with a terminal checkpoint and no live one, or with exactly one live
\* checkpoint, the new one.
C6_AtMostOneLive ==
    /\ \A t \in ThreadIds : Cardinality(LiveCheckpoints(checkpoints, t)) <= 1
    /\ (last.op = "chat" /\ last.path = "resume" /\ last.resp.code = 200)
       => LET t == last.target
          IN \/ IsTerminal(checkpoints, t) /\ LiveCheckpoints(checkpoints, t) = {}
             \/ /\ IsLive(checkpoints, t)
                /\ LiveCheckpoints(checkpoints, t) = {Len(checkpoints[t])}

\* C7: a POST /chat that names a thread with a live checkpoint never starts
\* that thread anew: no new input checkpoint is written for it.
C7_LiveThreadNotRestarted ==
    [][\A t \in ThreadIds :
          (IsLive(checkpoints, t) /\ last'.op = "chat" /\ last'.thread_id = t
           /\ <<checkpoints, last>>' # <<checkpoints, last>>)
          => /\ last'.path \notin StartPaths
             /\ \A i \in (Len(checkpoints[t]) + 1)..Len(checkpoints'[t]) :
                   checkpoints'[t][i].source # "input"]_vars

\* C8: a resume that was in flight together with another resume of the same
\* live thread either consumes the live checkpoint ('completed'), observes
\* the completed thread ('already_completed') or is rejected; the stored
\* messages hold the user message of one input only.
C8_ConcurrentResumesSerialized ==
    (last.op = "chat" /\ last.raced)
    => /\ \/ last.resp.status \in {"completed", "already_completed"}
          \/ last.resp.code >= 400
       /\ IsTerminal(checkpoints, last.target)
            => Cardinality(UserMessages(StoredMessages(last.target))) = 1

\* C9: a POST /chat for a live thread is dispatched to resume when user_input
\* is non-empty, and answered 400 without starting anything when it is empty.
C9_LiveThreadDispatch ==
    (last.op = "chat" /\ last.thread_id # NoThread /\ last.pre = "live")
    => /\ last.path = "resume"
       /\ last.resp.status # "already_completed"
       /\ last.user_input = "" => last.resp.code = 400

\* C10: when a resume returns 'completed' with processing_complete, the
\* thread's stored checkpoint is terminal, its processing_complete is true
\* and it stores the messages the response carries.
C10_CompletedResponseMatchesStore ==
    (/\ last.op = "chat" /\ last.path = "resume"
     /\ last.resp.status = "completed" /\ last.resp.processing_complete)
    => /\ IsTerminal(checkpoints, last.target)
       /\ Latest(checkpoints, last.target).next = {}
       /\ StoredComplete(last.target)
       /\ last.resp.messages = StoredMessages(last.target)

C10_Witness ==
    /\ last.op = "chat" /\ last.path = "resume"
    /\ last.resp.status = "completed" /\ last.resp.processing_complete
    /\ last.resp.thread_id = last.target
    /\ Len(last.resp.messages) >= 2

\* C11: two state reads of the same thread with no other request in between
\* are answered identically (same response, same state, same next steps) when
\* the store answers both, and a state read changes no checkpoint.
C11_StateReadIdempotent ==
    [][/\ last'.op = "state" => checkpoints' = checkpoints
       /\ (/\ last.op = "state" /\ last'.op = "state"
           /\ last'.thread_id = last.thread_id
           /\ ~last.read_failed /\ ~last'.read_failed)
          => /\ last'.resp = last.resp
             /\ view'.state = view.state
             /\ view'.next_steps = view.next_steps]_vars

C11_Witness ==
    /\ last.op = "state" /\ view.repeat
    /\ last.resp.code = 200
    /\ IsLive(checkpoints, last.thread_id)
    /\ view.next_steps = {"request_input"}

\* C12: a state read answers 404 exactly when the thread has no checkpoint,
\* and answers the stored state of every thread that has one, live or
\* terminal.
C12_StateNotFoundIffNoCheckpoint ==
    (last.op = "state" /\ ~last.read_failed)
    => /\ last.resp.code = 404 <=> ~HasCheckpoint(checkpoints, last.thread_id)
       /\ HasCheckpoint(checkpoints, last.thread_id)
          => /\ last.resp.code = 200
             /\ view.state = Values(Latest(checkpoints, last.thread_id))
             /\ view.next_steps = Latest(checkpoints, last.thread_id).next

\* C13 as claimed: deleting a thread that has no records answers a success
\* with a removed-count of 0, also when it is the second delete in a row.
C13_DeleteUnknownIsSuccess ==
    (last.op = "delete" /\ last.pre = "none" /\ ~last.write_failed)
    => (last.resp.code = 200 /\ view.deleted = 0)

\* C13, amended: deleting a thread that has no records removes nothing and
\* leaves the thread without records; the endpoint answers 404 (500 when the
\* store fails), never a success, also when it is the second delete in a row.
C13_DeleteUnknownRemovesNothing ==
    (last.op = "delete" /\ last.pre = "none")
    => /\ view.removed = 0 /\ view.deleted = 0
       /\ ~HasCheckpoint(checkpoints, last.thread_id)
       /\ last.resp.code = IF last.write_failed THEN 500 ELSE 404

C13_Witness ==
    /\ last.op = "delete" /\ last.pre = "none" /\ view.repeat
    /\ last.resp.code = 404
    /\ \E t \in ThreadIds : HasCheckpoint(checkpoints, t)

\* C14: a delete of a thread that has checkpoints answers a success whose
\* deleted_checkpoints is the number of checkpoint rows removed, and 404 is
\* answered only for a thread that had none.
C14_DeletedCountIsCheckpoints ==
    (last.op = "delete" /\ ~last.write_failed)
    => /\ last.pre # "none" => (last.resp.code = 200 /\ view.deleted = view.removed)
       /\ last.resp.code = 404 => last.pre = "none"

Request(op, user_input) == [op |-> op, user_input |-> user_input]
ScenarioRequests == {Request("chat", x) : x \in Inputs} \cup {Request("state", "")}
Scenarios == UNION {[1..n -> ScenarioRequests] : n \in 1..ScenarioLen}

\* what a client sees of a response
Observed(resp, body) ==
    [code |-> resp.code, status |-> resp.status, messages |-> resp.messages,
     state_messages |-> GetMessages(body.state), next_steps |-> body.next_steps]

\* the responses of variant v to the requests reqs for thread t
RECURSIVE Replay(_, _, _, _, _, _)
Replay(v, reqs, cps, act, t, in_place) ==
    IF reqs = <<>> THEN <<>>
    ELSE LET env == Env(FALSE, FALSE, in_place)
             r == Head(reqs)
         IN IF r.op = "chat"
            THEN LET out == Chat(v, cps, act, t, r.user_input, t, env)
                 IN <<Observed(out.resp, NoView)>>
                    \o Replay(v, Tail(reqs), out.checkpoints, out.active_threads,
                              t, in_place)
            ELSE LET out == GetThreadState(v, cps, act, t, env)
                 IN <<Observed(out.resp, out.view)>>
                    \o Replay(v, Tail(reqs), out.checkpoints, act, t, in_place)

\* the responses of variant v to a start followed by the scenario
ReplayFromStart(v, reqs, in_place) ==
    LET t == 1
        start == Chat(v, [u \in ThreadIds |-> <<>>], {}, NoThread, "", t,
                      Env(FALSE, FALSE, in_place))
    IN <<Observed(start.resp, NoView)>>
       \o Replay(v, reqs, start.checkpoints, start.active_threads, t, in_place)

\* C16: the running variant answers every scenario as the other variant
\* does: same codes and statuses, same messages, same not-found outcomes.
C16_VariantsInterchangeable ==
    \A reqs \in Scenarios, in_place \in BOOLEAN, other \in Variants \ {variant} :
       ReplayFromStart(variant, reqs, in_place)
       = ReplayFromStart(other, reqs, in_place)

\* C17: a POST /chat during which the store read or the store write fails is
\* answered 500; it is not answered by a start or by any success.
C17_StoreFailureIsFatal ==
    (last.op = "chat" /\ (last.read_failed \/ last.write_failed))
    => /\ last.resp.code = 500
       /\ last.resp.status \notin {"interrupted", "completed", "already_completed"}

\* C18: when the model call of a processing step fails (it raises an
\* Exception, not a Ctrl-C), the step appends the
\* user message and exactly one assistant message describing the failure,
\* clears user_input, and the chatbot is back at get_input, in every chatbot.
C18_UpstreamFailureNotFatal ==
    (console.upstream_failed /\ ~console.interrupted)
    => /\ console.node = "get_input"
       /\ console.user_input = ""
       /\ Len(console.messages) = Len(console.before) + 2
       /\ SubSeq(console.messages, 1, Len(console.before)) = console.before
       /\ console.messages[Len(console.before) + 1].role = "user"
       /\ console.messages[Len(console.before) + 2].role = "assistant"

\* streams of a graph that reaches its end without suspending: updates of
\* nodes only, no __interrupt__ event
UpdateEvent == [kind |-> "request_input", value |-> "", messages |-> <<>>]
UnsuspendedStreams == {<<>>, <<UpdateEvent>>, <<UpdateEvent, UpdateEvent>>}

\* C19: every POST /chat is answered: a start that succeeds leaves the thread
\* at its suspend point and answers 'interrupted', a resume that succeeds
\* leaves it terminal and answers 'completed'; and a start whose stream ends
\* without a suspension is answered 200 'completed', not left unanswered.
C19_EveryRequestAnswered ==
    /\ last.op = "chat"
       => /\ last.resp.code \in {200, 400, 500}
          /\ (last.path \in StartPaths /\ last.resp.code = 200)
             => (last.resp.status = "interrupted" /\ IsLive(checkpoints, last.target))
          /\ (last.path = "resume" /\ last.resp.code = 200)
             => (last.resp.status = "completed" /\ IsTerminal(checkpoints, last.target))
    /\ \A events \in UnsuspendedStreams, t \in ThreadIds :
          StartResult(variant, [checkpoints |-> checkpoints, puts |-> {}, events |-> events],
                      active_threads, t, "start_new").resp
          = Response(200, t, "completed", "No interrupt occurred", <<>>, FALSE, FALSE)

C19_Witness ==
    /\ last.op = "chat" /\ last.path \in StartPaths
    /\ last.resp.code = 200 /\ last.resp.status = "interrupted"
    /\ IsLive(checkpoints, last.target)
    /\ \E t \in ThreadIds : IsTerminal(checkpoints, t)

\* C20: GET /threads answers with every thread id that has a checkpoint,
\* each exactly once, and with count equal to the number of such threads
\* (the claim adds: most recently updated first).
C20_ListReturnsEveryThread ==
    (last.op = "list" /\ ~last.read_failed)
    => /\ last.resp.code = 200
       /\ {view.threads[i] : i \in 1..Len(view.threads)}
          = {t \in ThreadIds : HasCheckpoint(checkpoints, t)}
       /\ \A i, j \in 1..Len(view.threads) : view.threads[i] = view.threads[j] => i = j
       /\ view.count = Cardinality({t \in ThreadIds : HasCheckpoint(checkpoints, t)})

\* C21: in the durable variant GET /health reports total_threads = number of
\* distinct thread ids with checkpoints and total_checkpoints = number of
\* checkpoint rows, in every store state, the empty one included.
C21_HealthReportsCounts ==
    (last.op = "health" /\ variant = "durable" /\ ~last.read_failed)
    => /\ view.has_stats
       /\ view.total_threads = CountThreads(checkpoints)
       /\ view.total_checkpoints = CountCheckpoints(checkpoints, ThreadIds)

\* the last line typed is a quit word, in any letter case
QuitTyped == console.from = "get_input" /\ Lower(console.typed) \in QuitWords

\* the transitions of the chat graph of the claim, DONE being END
GraphEdges ==
    {<<"get_input", "process_message">>, <<"process_message", "get_input">>,
     <<"get_input", "END">>}

\* C22: the only transitions of a chat graph are input -> processing,
\* processing -> input and input -> DONE; a quit word typed at the input node
\* takes every console chatbot to DONE, and no node runs after DONE.
C22_TwoNodeCycleOneExit ==
    /\ [][(console' # console /\ console'.typed \notin Signals
                              /\ ~console'.interrupted)
          => <<console.node, console'.node>> \in GraphEdges]_vars
    /\ [](QuitTyped => console.node = "END")

\* C23: once a quit word is typed, in any letter case, the run of a console
\* chatbot is over: no node is scheduled and the state never changes again
\* (no processing step, no generation call).
C23_QuitEndsConversation ==
    /\ [](QuitTyped => console.node \in {"END", "raised"})
    /\ [][QuitTyped => console' = console]_vars
    /\ [][console.node \in {"END", "raised"} => console' = console]_vars

\* an upper-case quit word was typed after a complete exchange
C23_Witness ==
    /\ console.typed = "BYE"
    /\ console.from = "get_input"
    /\ console.node \in {"END", "raised"}
    /\ Len(console.messages) >= 2

\* C30: the processing node runs only with a non-empty user_input: after a
\* command the graph is back at the input node and no message was appended.
C30_ProcessingNeedsInput ==
    /\ console.node = "process_message" => console.user_input # ""
    /\ \A i \in 1..Len(console.messages) :
          console.messages[i].role = "user" => console.messages[i].content # ""

\* the threads whose latest checkpoint waits in request_input
LiveThreads == {t \in ThreadIds : IsLive(checkpoints, t)}

\* C28: in the volatile variant the registry of active threads holds exactly
\* the threads with a live checkpoint, in every reachable state, and GET
\* /health reports that set.
C28_RegistryMatchesLiveThreads ==
    variant = "volatile"
    => /\ active_threads = LiveThreads
       /\ last.op = "health"
          => /\ view.thread_ids = LiveThreads
             /\ view.total_threads = Cardinality(LiveThreads)

\* GET /health of the volatile variant while a conversation waits for input
C28_Witness ==
    /\ variant = "volatile"
    /\ last.op = "health"
    /\ view.thread_ids # {}
    /\ view.thread_ids = LiveThreads

\* C24: right after a start that is answered 'interrupted', the thread's
\* latest checkpoint holds the initial state with request_input as next step
\* (nothing the node did before suspending is stored), and the response
\* carries the payload of the interrupt.
C24_SuspendedStartStoresInitialState ==
    (last.op = "chat" /\ last.path \in StartPaths /\ last.resp.status = "interrupted")
    => /\ Values(Latest(checkpoints, last.target)) = InitialState
       /\ Latest(checkpoints, last.target).next = {"request_input"}
       /\ last.resp.message = InterruptPayload
       /\ last.resp.requires_input

\* the step handles a resume of t that is answered 200, or a delete of t
ResumesOrDeletes(t) ==
    \/ /\ last'.op = "chat" /\ last'.target = t /\ last'.path = "resume"
       /\ last'.resp.code = 200
    \/ last'.op = "delete" /\ last'.thread_id = t

\* C25: the checkpoints of a live thread are left as they are by every
\* request that is neither a successful resume nor a delete of that thread;
\* a restart of the process is not a request.
C25_LiveThreadStaysParked ==
    [][\A t \in ThreadIds :
          (IsLive(checkpoints, t) /\ ~ResumesOrDeletes(t) /\ last'.op # "restart")
          => checkpoints'[t] = checkpoints[t]]_vars

\* the request handled last deleted an existing thread
Deleted(t) == last.op = "delete" /\ last.thread_id = t /\ last.resp.code = 200

\* C26: after a successful DELETE of a thread no checkpoint of it is left;
\* a GET of its state that follows is answered 404, a GET /threads that
\* follows does not list it, and a POST /chat with its id that follows
\* starts a new conversation: 'interrupted', the initial state stored.
C26_DeletedThreadIsGone ==
    /\ [](\A t \in ThreadIds : Deleted(t) => ~HasCheckpoint(checkpoints, t))
    /\ [][\A t \in ThreadIds :
             Deleted(t)
             => /\ (last'.op = "state" /\ last'.thread_id = t) => last'.resp.code = 404
                /\ last'.op = "list" => \A i \in 1..Len(view'.threads) : view'.threads[i] # t
                /\ (last'.op = "chat" /\ last'.thread_id = t)
                   => /\ last'.resp.status = "interrupted"
                      /\ HasCheckpoint(checkpoints', t)
                      /\ Values(Latest(checkpoints', t)) = InitialState]_vars

\* C29: in every stored checkpoint processing_complete is true exactly when
\* the checkpoint has no next step.
C29_CompleteIffTerminal ==
    \A t \in ThreadIds : \A i \in 1..Len(checkpoints[t]) :
       GetProcessingComplete(Values(checkpoints[t][i])) <=> (checkpoints[t][i].next = {})

\* s is a prefix of q
IsPrefix(s, q) == Len(s) <= Len(q) /\ \A i \in 1..Len(s) : s[i] = q[i]

\* the messages a step added to the stored history of thread t
Appended(t) == SubSeq(StoredMessages(t)', Len(StoredMessages(t)) + 1, Len(StoredMessages(t)'))

\* C27: the stored message history of a conversation only grows: the
\* messages before a step are a prefix of the messages after it, and a step
\* that adds messages adds one user message followed by one assistant message.
\* A restart is not a step of the conversation: a process started in another
\* directory reads another file.
C27_HistoryAppendOnly ==
    [][\A t \in ThreadIds :
          (HasCheckpoint(checkpoints, t) /\ HasCheckpoint(checkpoints', t)
           /\ last'.op # "restart")
          => /\ IsPrefix(StoredMessages(t), StoredMessages(t)')
             /\ \/ Appended(t) = <<>>
                \/ /\ Len(Appended(t)) = 2
                   /\ Appended(t)[1].role = "user"
                   /\ Appended(t)[2].role = "assistant"]_vars

\* the three message classes load_conversation rebuilds
KnownKinds(messages) ==
    \A i \in 1..Len(messages) : messages[i].role \in {"user", "assistant", "system"}

\* C31: load_conversation(id) returns None for an id never saved; after
\* save_conversation(state) with human, assistant and system messages it
\* returns the conversation_id, the metadata and the messages of the last
\* state saved under that id, in order, with user_input ''.
C31_SaveLoadRoundTrip ==
    manager.op = "load"
    => LET state == manager.saved[manager.id]
       IN /\ state.is_none => manager.loaded = NoState
          /\ (~state.is_none /\ KnownKinds(state.messages))
             => manager.loaded = Loaded(FALSE, state.messages, "", manager.id,
                                        state.metadata)

\* a conversation of all three kinds is loaded after it replaced an earlier
\* save under the same id, the state saved having a pending user_input
C31_Witness ==
    /\ manager.op = "load"
    /\ manager.rewrites[manager.id]
    /\ ~manager.loaded.is_none
    /\ Len(manager.loaded.messages) = 3
    /\ manager.saved[manager.id].user_input = "hi"
    /\ \E id \in ConvIds : manager.saved[id].is_none

\* C32: in the chatbots that keep metadata, message_count is the number of
\* messages of the history after every step: a processing step that
\* succeeded, one whose generation call failed, and the 'clear' command
\* (a step that Ctrl-C cut short is not counted).
C32_MessageCountIsLength ==
    (console.bot \in {"enhanced", "crewai"} /\ ~console.interrupted)
    => console.message_count = Len(console.messages)

====
